---- MODULE Spec2Model ----
(***************************************************************************)
(* stumfixer: a daemon that watches the PulseAudio card profile and        *)
(* switches it according to the attached monitor.  The model covers the    *)
(* command line (start / stop), the double-fork daemonize() with its pid   *)
(* file, atexit cleanup and SIGTERM handler, the control loop of main()    *)
(* and the log file it writes through the redirected stdout / stderr.      *)
(*                                                                         *)
(* Every process of the program is one entry of the functions below; one   *)
(* action is one step of one process, so that steps of concurrently        *)
(* running invocations (a start, a stop, a daemon that is exiting)         *)
(* interleave the way the operating system lets them.                      *)
(***************************************************************************)
EXTENDS Integers, Sequences, FiniteSets, Bags, TLC

\* ---------------------------------------------------------------- bounds
MaxProcs == 2        \* invocations of the program per behaviour
FirstPid == 7        \* the first process id handed out (so that ids have one and two digits)
MaxIter  == 2        \* control-loop iterations started per behaviour

\* ------------------------------------------------------ program constants
MAXLOGSIZE == 1000000

\* An invocation is the process the shell starts and, for "start", the two
\* processes daemonize() forks in turn; each parent exits as its child goes on, so
\* one of the three runs at a time.
Procs  == 1 .. (MaxProcs + 1)
Roles  == <<"foreground", "intermediate", "daemon">>
RoleNo(r) == CHOOSE k \in 1..3 : Roles[k] = r

\* os.getpid() of the process of invocation i in role r: the kernel hands out the
\* ids in sequence
Pid(i, r) == FirstPid + 3 * (i - 1) + (RoleNo(r) - 1)
NoPid  == FirstPid - 1      \* no process

ANALOG == "output:analog-stereo+input:analog-stereo"
HDMI   == "output:hdmi-stereo"
Profiles == {ANALOG, HDMI}

\* ------------------------------------------------------------ text helpers
Digits == <<"0", "1", "2", "3", "4", "5", "6", "7", "8", "9">>

RECURSIVE str(_)
\* str(n) of a non-negative integer, as print() formats os.getpid()
str(n) == IF n < 10 THEN <<Digits[n + 1]>>
                    ELSE str(n \div 10) \o <<Digits[(n % 10) + 1]>>

\* print(os.getpid(), file=f): the decimal id and a newline
PidText(p) == str(p) \o <<"\n">>

IsSpace(c) == c \in {"\n", " ", "\t"}

RECURSIVE lstrip(_)
lstrip(s) == IF s # <<>> /\ IsSpace(Head(s)) THEN lstrip(Tail(s)) ELSE s

RECURSIVE rstrip(_)
rstrip(s) == IF s # <<>> /\ IsSpace(s[Len(s)]) THEN rstrip(SubSeq(s, 1, Len(s) - 1)) ELSE s

DigitVal(c) == CHOOSE d \in 0..9 : Digits[d + 1] = c

RECURSIVE digitsValue(_)
digitsValue(s) == IF s = <<>> THEN 0
                  ELSE 10 * digitsValue(SubSeq(s, 1, Len(s) - 1)) + DigitVal(s[Len(s)])

\* int(text): surrounding whitespace is dropped; anything but a non-empty run of
\* digits raises ValueError
int(s) ==
    LET t == rstrip(lstrip(s)) IN
    IF t # <<>> /\ \A i \in 1..Len(t) : \E d \in 1..10 : Digits[d] = t[i]
    THEN [ok |-> TRUE,  val |-> digitsValue(t)]
    ELSE [ok |-> FALSE, val |-> 0]

\* str.startswith
startswith(s, prefix) ==
    /\ Len(s) >= Len(prefix)
    /\ SubSeq(s, 1, Len(prefix)) = prefix

\* --------------------------------------------------------------- products
\* device.product.name values pacmd may report; None when no such line is printed
None      == [none |-> TRUE,  v |-> <<>>]
Some(s)   == [none |-> FALSE, v |-> s]
DELL      == <<"D", "E", "L", "L">>
BenQ      == <<"B", "e", "n", "Q">>
Products  == { Some(DELL \o <<" ", "U">>), Some(BenQ \o <<" ", "G">>),
               Some(<<"D", "E", "L">>), None }

\* main(): the profile asked for, by the product name
Desired(prod) ==
    IF startswith(prod.v, DELL) THEN ANALOG
    ELSE IF startswith(prod.v, BenQ) THEN HDMI
    ELSE ANALOG

\* ---------------------------------------------------------------- log file
\* a line of LOGFILE; every line but a traceback starts with time.ctime() and ": "
CtimeLen == Len("Wed Nov  4 06:24:20 2026")

LineLen(l) ==
    CASE l.kind = "started"   -> CtimeLen + Len(": Stumfixer daemon started with pid=")
                                  + Len(str(l.pid)) + 1
      [] l.kind = "setting"   -> CtimeLen + Len(": Setting card profile to ") + Len(l.name) + 1
      [] l.kind = "cleaning"  -> CtimeLen + Len(": Cleaning up log file!") + 1
      [] l.kind = "quitting"  -> CtimeLen + Len(": Quitting daemon") + 1
      [] l.kind = "traceback" -> Len("Traceback (most recent call last):") + 1

Line(kind, pid, name) == [kind |-> kind, pid |-> pid, name |-> name]

StartedLine(p)  == Line("started", p, "-")
SettingLine(n)  == Line("setting", NoPid, n)
CleaningLine    == Line("cleaning", NoPid, "-")
QuittingLine    == Line("quitting", NoPid, "-")
TracebackLine   == Line("traceback", NoPid, "-")

RECURSIVE SumOver(_, _)
SumOver(S, b) ==
    IF S = {} THEN 0
    ELSE LET l == CHOOSE x \in S : TRUE
         IN  b[l] * LineLen(l) + SumOver(S \ {l}, b)

\* the bytes of a bag of lines
SumLen(b) == SumOver(BagToSet(b), b)

VARIABLES
    pc,              \* where each invocation is in the program
    argv,            \* sys.argv[1] of the invocation
    role,            \* which of the invocation's processes is the one running
    exitCode,        \* exit status of each process of the invocation, -1 while none
    err,             \* what the invocation printed to the terminal's stderr
    errBy,           \* the role of the process that printed it
    spawned,         \* how many invocations the shell has started
    pidFile,         \* PIDFILE: [exists, text, ino]; ino names the file the path refers to
    fd,              \* daemonize(): the file the process holds open for writing its id
    atexit,          \* whether the process registered the os.remove(pidfile) callback
    sigterm,         \* the process's SIGTERM disposition
    pending,         \* a SIGTERM was delivered and its Python handler has not run yet
    active_profile,  \* main(): the active profile get_audio_info() returned
    name,            \* switch_audio_to(): the profile asked for
    iter,            \* iterations of the loop started so far, by all daemons
    cardProfile,     \* the active profile of card 0, as PulseAudio has it
    logBase,         \* bytes LOGFILE holds from before this behaviour
    logLines,        \* the lines appended to LOGFILE since (the program reads only its size)
    buf,             \* stop: what f.read() returned
    killed,          \* stop: the process id os.kill() delivered SIGTERM to
    wrote,           \* the daemon wrote its id to PIDFILE
    applied,         \* the pacmd set-card-profile calls of the current iteration
    logged,          \* the "Setting card profile" lines of the current iteration
    quits            \* one entry per run of sigterm_handler: what it interrupted

vars == <<pc, argv, role, exitCode, err, errBy, spawned, pidFile, fd, atexit, sigterm,
          pending, active_profile, name, iter, cardProfile, logBase, logLines, buf,
          killed, wrote, applied, logged, quits>>

loopVars  == <<active_profile, name, iter, applied, logged>>
logVars   == <<logBase, logLines>>
sigVars   == <<atexit, sigterm, pending>>

Absent == [exists |-> FALSE, text |-> <<>>, ino |-> NoPid]

\* sizes LOGFILE may have when the daemon starts appending to it
LogBases == {0, MAXLOGSIZE - 63}

LogSize == logBase + SumLen(logLines)

\* os.path.exists(PIDFILE)
exists == pidFile.exists

Alive(i) == pc[i] \notin {"unused", "exited"}

\* the id of the process of invocation i that is running
Self(i) == Pid(i, role[i])

\* the invocation a process id belongs to, and whether that process is running
ProcOf(n) == CHOOSE i \in Procs : \E r \in {"foreground", "intermediate", "daemon"} : Pid(i, r) = n
IsProcess(n) == \E i \in Procs : Alive(i) /\ Self(i) = n

Init ==
    /\ pc = [i \in Procs |-> "unused"]
    /\ argv = [i \in Procs |-> "-"]
    /\ role = [i \in Procs |-> "foreground"]
    /\ exitCode = [i \in Procs |-> [foreground |-> -1, intermediate |-> -1, daemon |-> -1]]
    /\ err = [i \in Procs |-> "-"]
    /\ errBy = [i \in Procs |-> "-"]
    /\ spawned = 0
    /\ pidFile = Absent
    /\ fd = [i \in Procs |-> NoPid]
    /\ atexit = [i \in Procs |-> FALSE]
    /\ sigterm = [i \in Procs |-> "SIG_DFL"]
    /\ pending = [i \in Procs |-> FALSE]
    /\ active_profile = [i \in Procs |-> "-"]
    /\ name = [i \in Procs |-> "-"]
    /\ iter = 0
    /\ cardProfile \in Profiles
    /\ logBase \in LogBases
    /\ logLines = EmptyBag
    /\ buf = [i \in Procs |-> <<>>]
    /\ killed = [i \in Procs |-> NoPid]
    /\ wrote = [i \in Procs |-> FALSE]
    /\ applied = [i \in Procs |-> <<>>]
    /\ logged = [i \in Procs |-> 0]
    /\ quits = [i \in Procs |-> <<>>]

\* ------------------------------------------------------------ process exit
\* the running process of the invocation is gone with the given status
Terminate(i, code) ==
    /\ pc' = [pc EXCEPT ![i] = "exited"]
    /\ exitCode' = [exitCode EXCEPT ![i][role[i]] = code]

\* print(..., file=sys.stderr) before the streams are redirected
Report(i, msg) ==
    /\ err' = [err EXCEPT ![i] = msg]
    /\ errBy' = [errBy EXCEPT ![i] = role[i]]

\* the shell starts the program
Spawn(i) ==
    /\ i = spawned + 1
    /\ spawned' = i

\* the usage line printed for an unknown command too
ErrorMessage_Usage(a) == "Usage"

\* __main__: "Usage: ... [start|stop]" for a wrong number of arguments,
\* "Unknown command ..." for an argument that is neither start nor stop
ErrorMessage(a) == IF a = "argc" THEN "Usage" ELSE "Unknown command"

\* __main__: a wrong number of arguments, or an unknown command
Usage(i) ==
    /\ Spawn(i)
    /\ \E a \in {"argc", "bogus"} :
          /\ argv' = [argv EXCEPT ![i] = a]
          /\ Report(i, ErrorMessage(a))
    /\ Terminate(i, 1)
    /\ UNCHANGED <<role, pidFile, fd, sigVars, loopVars, cardProfile, logVars, buf,
                   killed, wrote, quits>>

\* the existence check left out
AlreadyRunning_Unchecked == FALSE

\* daemonize(): the pid file is there already
AlreadyRunning == exists

\* __main__ "start" up to daemonize()'s os.path.exists(pidfile) check
Start(i) ==
    /\ Spawn(i)
    /\ argv' = [argv EXCEPT ![i] = "start"]
    /\ IF AlreadyRunning
       THEN Terminate(i, 1)                          \* exit(1)
       ELSE /\ pc' = [pc EXCEPT ![i] = "fork1"]
            /\ UNCHANGED exitCode
    /\ UNCHANGED <<role, err, errBy, pidFile, fd, sigVars, loopVars, cardProfile, logVars,
                   buf, killed, wrote, quits>>

\* the parent of a fork leaving with the status of a failure
Forked_ParentFails(i, child, next) ==
    /\ exitCode' = [exitCode EXCEPT ![i][role[i]] = 1]
    /\ role' = [role EXCEPT ![i] = child]
    /\ pc' = [pc EXCEPT ![i] = next]
    /\ UNCHANGED <<err, errBy>>

\* os.fork() returned in both processes: the parent raises SystemExit(0), the
\* child goes on at the given place
Forked(i, child, next) ==
    /\ exitCode' = [exitCode EXCEPT ![i][role[i]] = 0]
    /\ role' = [role EXCEPT ![i] = child]
    /\ pc' = [pc EXCEPT ![i] = next]
    /\ UNCHANGED <<err, errBy>>

\* os.fork() raised OSError: daemonize() raises RuntimeError, which __main__
\* prints before it raises SystemExit(1) -- in the process that called fork
ForkFailed(i, msg) ==
    /\ Report(i, msg)
    /\ Terminate(i, 1)
    /\ UNCHANGED role

\* first fork; the child goes on with os.chdir("/"), os.umask(0), os.setsid()
Fork1(i) ==
    /\ pc[i] = "fork1"
    /\ \/ Forked(i, "intermediate", "fork2")
       \/ ForkFailed(i, "fork #1 failed.")
    /\ UNCHANGED <<argv, spawned, pidFile, fd, sigVars, loopVars, cardProfile, logVars,
                   buf, killed, wrote, quits>>

\* second fork; the child goes on with sys.stdout.flush(), sys.stderr.flush() and
\* the os.dup2 of /dev/null and LOGFILE onto stdin, stdout and stderr
Fork2(i) ==
    /\ pc[i] = "fork2"
    /\ \/ Forked(i, "daemon", "open_pidfile")
       \/ ForkFailed(i, "fork #2 failed.")
    /\ UNCHANGED <<argv, spawned, pidFile, fd, sigVars, loopVars, cardProfile, logVars,
                   buf, killed, wrote, quits>>

\* open(pidfile, "w"): creates the file, or empties the one that is there
OpenPidfile(i) ==
    /\ pc[i] = "open_pidfile"
    /\ pidFile' = IF pidFile.exists
                  THEN [pidFile EXCEPT !.text = <<>>]
                  ELSE [exists |-> TRUE, text |-> <<>>, ino |-> Self(i)]
    /\ fd' = [fd EXCEPT ![i] = pidFile'.ino]
    /\ pc' = [pc EXCEPT ![i] = "write_pidfile"]
    /\ UNCHANGED <<argv, role, exitCode, err, errBy, spawned, sigVars, loopVars,
                   cardProfile, logVars, buf, killed, wrote, quits>>

\* bytes written at offset 0 over what the file holds
Overwrite(old, new) ==
    IF Len(old) > Len(new) THEN new \o SubSeq(old, Len(new) + 1, Len(old)) ELSE new

\* the process id taken before the forks
RecordedPid_Foreground(i) == Pid(i, "foreground")

\* the process id daemonize() records: os.getpid() after both forks
RecordedPid(i) == Self(i)

\* print(os.getpid(), file=f) and the close that flushes it; the bytes go to the
\* file that was opened, which the path no longer names once it was removed.
\* Then atexit.register(lambda: os.remove(pidfile))
WritePidfile(i) ==
    /\ pc[i] = "write_pidfile"
    /\ pidFile' = IF pidFile.exists /\ pidFile.ino = fd[i]
                  THEN [pidFile EXCEPT !.text = Overwrite(@, PidText(RecordedPid(i)))]
                  ELSE pidFile
    /\ wrote' = [wrote EXCEPT ![i] = TRUE]
    /\ fd' = [fd EXCEPT ![i] = NoPid]
    /\ atexit' = [atexit EXCEPT ![i] = TRUE]
    /\ pc' = [pc EXCEPT ![i] = "signal"]
    /\ UNCHANGED <<argv, role, exitCode, err, errBy, spawned, sigterm, pending, loopVars,
                   cardProfile, logVars, buf, killed, quits>>

\* daemonize() returning with SIGTERM left at its default
SignalInstall_Skipped(i) ==
    /\ pc[i] = "signal"
    /\ pc' = [pc EXCEPT ![i] = "main"]
    /\ UNCHANGED <<argv, role, exitCode, err, errBy, spawned, pidFile, fd, sigVars,
                   loopVars, cardProfile, logVars, buf, killed, wrote, quits>>

\* signal.signal(signal.SIGTERM, sigterm_handler); daemonize() returns
SignalInstall(i) ==
    /\ pc[i] = "signal"
    /\ sigterm' = [sigterm EXCEPT ![i] = "sigterm_handler"]
    /\ pc' = [pc EXCEPT ![i] = "main"]
    /\ UNCHANGED <<argv, role, exitCode, err, errBy, spawned, pidFile, fd, atexit,
                   pending, loopVars, cardProfile, logVars, buf, killed, wrote, quits>>

\* the test taken for passed whatever the file system says
StopFindsPidfile_Always == TRUE

\* __main__, "stop": if os.path.exists(PIDFILE)
StopFindsPidfile == exists

\* --------------------------------------------------------------- stop
\* __main__ "stop" up to its os.path.exists(PIDFILE) check
Stop(i) ==
    /\ Spawn(i)
    /\ argv' = [argv EXCEPT ![i] = "stop"]
    /\ IF StopFindsPidfile
       THEN /\ pc' = [pc EXCEPT ![i] = "stop_read"]
            /\ UNCHANGED <<exitCode, err, errBy>>
       ELSE /\ Report(i, "Not running")
            /\ Terminate(i, 1)
    /\ UNCHANGED <<role, pidFile, fd, sigVars, loopVars, cardProfile, logVars, buf,
                   killed, wrote, quits>>

\* the pid file removed by stop once it has read it
StopRead_Removes(i) ==
    /\ pc[i] = "stop_read"
    /\ IF exists
       THEN /\ buf' = [buf EXCEPT ![i] = pidFile.text]
            /\ pidFile' = Absent
            /\ pc' = [pc EXCEPT ![i] = "stop_kill"]
            /\ UNCHANGED <<exitCode, err, errBy>>
       ELSE /\ Report(i, "FileNotFoundError")
            /\ Terminate(i, 1)
            /\ UNCHANGED <<buf, pidFile>>
    /\ UNCHANGED <<argv, role, spawned, fd, sigVars, loopVars, cardProfile,
                   logVars, killed, wrote, quits>>

\* with open(PIDFILE) as f: ... f.read(); FileNotFoundError when the file is gone
StopRead(i) ==
    /\ pc[i] = "stop_read"
    /\ IF exists
       THEN /\ buf' = [buf EXCEPT ![i] = pidFile.text]
            /\ pc' = [pc EXCEPT ![i] = "stop_kill"]
            /\ UNCHANGED <<exitCode, err, errBy>>
       ELSE /\ Report(i, "FileNotFoundError")
            /\ Terminate(i, 1)
            /\ UNCHANGED buf
    /\ UNCHANGED <<argv, role, spawned, pidFile, fd, sigVars, loopVars, cardProfile,
                   logVars, killed, wrote, quits>>

\* SIGTERM with the default disposition terminates the process on the spot, and
\* no atexit callback runs; with sigterm_handler installed the signal is noted and
\* the handler runs at the next step of the process
DefaultDisposition(j) == sigterm[j] = "SIG_DFL"

\* os.kill(int(f.read()), signal.SIGTERM), then the end of the program; ValueError
\* when the text is no number, ProcessLookupError when there is no such process
StopKill(i) ==
    /\ pc[i] = "stop_kill"
    /\ LET r == int(buf[i]) IN
       IF ~r.ok
       THEN /\ Report(i, "ValueError")
            /\ Terminate(i, 1)
            /\ UNCHANGED <<pending, killed>>
       ELSE IF ~IsProcess(r.val)
       THEN /\ Report(i, "ProcessLookupError")
            /\ Terminate(i, 1)
            /\ UNCHANGED <<pending, killed>>
       ELSE LET j == ProcOf(r.val) IN
            /\ killed' = [killed EXCEPT ![i] = r.val]
            /\ IF DefaultDisposition(j)
               THEN /\ pc' = [pc EXCEPT ![i] = "exited", ![j] = "exited"]
                    /\ exitCode' = [exitCode EXCEPT ![i][role[i]] = 0,
                                                     ![j][role[j]] = 143]
                    /\ UNCHANGED pending
               ELSE /\ pending' = [pending EXCEPT ![j] = TRUE]
                    /\ Terminate(i, 0)
            /\ UNCHANGED <<err, errBy>>
    /\ buf' = [buf EXCEPT ![i] = <<>>]
    /\ UNCHANGED <<argv, role, spawned, pidFile, fd, atexit, sigterm, loopVars,
                   cardProfile, logVars, wrote, quits>>

\* ------------------------------------------------------------ control loop
\* the process is at the given place and no SIGTERM waits for its handler
At(i, label) == pc[i] = label /\ ~pending[i]

\* sys.stdout.write(...) / the traceback on stderr: both are LOGFILE, opened "ab"
Write(l) == logLines' = logLines (+) SetToBag({l})

\* the exception caught and logged, the loop going on with its sleep
Fault_Swallowed(i) ==
    /\ Write(TracebackLine)
    /\ pc' = [pc EXCEPT ![i] = "sleep"]

\* an exception nobody catches: the traceback goes to stderr, the interpreter
\* finalizes (atexit callbacks) and exits 1
Fault(i) ==
    /\ Write(TracebackLine)
    /\ pc' = [pc EXCEPT ![i] = "exiting"]

\* main(): the start line
MainStart(i) ==
    /\ At(i, "main")
    /\ Write(StartedLine(Self(i)))
    /\ pc' = [pc EXCEPT ![i] = "get_audio_info"]
    /\ UNCHANGED <<argv, role, exitCode, err, errBy, spawned, pidFile, fd, sigVars,
                   loopVars, cardProfile, logBase, buf, killed, wrote, quits>>

\* the early return left out
AlreadyActive_Never(active, n) == FALSE

\* the early return taken whatever the profile
AlreadyActive_Always(active, n) == TRUE

\* switch_audio_to(): nothing to do when the profile is the active one
AlreadyActive(active, n) == active = n

\* one pass of main() from get_audio_info() to the early return of
\* switch_audio_to().  get_audio_info(): Popen raises OSError when pacmd cannot be
\* run, and without an "active profile" line the function raises SystemError; the
\* product is the last one listed, or None, and product.startswith then raises
\* AttributeError.  None of them is caught
GetAudioInfo(i) ==
    /\ At(i, "get_audio_info")
    /\ \/ \E prod \in Products :
            /\ ~prod.none
            /\ active_profile' = [active_profile EXCEPT ![i] = cardProfile]
            /\ name' = [name EXCEPT ![i] = Desired(prod)]
            /\ iter' = iter + 1
            /\ applied' = [applied EXCEPT ![i] = <<>>]
            /\ logged' = [logged EXCEPT ![i] = 0]
            /\ pc' = [pc EXCEPT ![i] =
                        IF AlreadyActive(cardProfile, Desired(prod))
                        THEN "check_log_file_size" ELSE "switch_write"]
            /\ UNCHANGED logLines
       \/ /\ Fault(i)
          /\ UNCHANGED loopVars
    /\ UNCHANGED <<argv, role, exitCode, err, errBy, spawned, pidFile, fd, sigVars,
                   cardProfile, logBase, buf, killed, wrote, quits>>

\* switch_audio_to(): the "Setting card profile" line
SwitchWrite(i) ==
    /\ At(i, "switch_write")
    /\ Write(SettingLine(name[i]))
    /\ logged' = [logged EXCEPT ![i] = @ + 1]
    /\ pc' = [pc EXCEPT ![i] = "switch_popen"]
    /\ UNCHANGED <<argv, role, exitCode, err, errBy, spawned, pidFile, fd, sigVars,
                   active_profile, name, iter, applied, cardProfile, logBase, buf,
                   killed, wrote, quits>>

\* a Popen that cannot run pacmd logged, and the loop going on
SwitchPopen_Recovers(i) ==
    /\ At(i, "switch_popen")
    /\ applied' = [applied EXCEPT ![i] = Append(@, name[i])]
    /\ pc' = [pc EXCEPT ![i] = "check_log_file_size"]
    /\ \/ cardProfile' = name[i] /\ UNCHANGED logLines
       \/ UNCHANGED <<cardProfile, logLines>>
       \/ Write(TracebackLine) /\ UNCHANGED cardProfile
    /\ UNCHANGED <<argv, role, exitCode, err, errBy, spawned, pidFile, fd, sigVars,
                   active_profile, name, iter, logged, logBase, buf, killed, wrote,
                   quits>>

\* switch_audio_to(): Popen of pacmd set-card-profile 0 name.  Nobody waits for
\* pacmd or reads its status: it sets the profile or it does not.  Popen raises
\* OSError when pacmd cannot be run, which is not the exception the code catches
SwitchPopen(i) ==
    /\ At(i, "switch_popen")
    /\ applied' = [applied EXCEPT ![i] = Append(@, name[i])]
    /\ \/ /\ cardProfile' = name[i]
          /\ pc' = [pc EXCEPT ![i] = "check_log_file_size"]
          /\ UNCHANGED logLines
       \/ /\ pc' = [pc EXCEPT ![i] = "check_log_file_size"]
          /\ UNCHANGED <<cardProfile, logLines>>
       \/ /\ Fault(i)
          /\ UNCHANGED cardProfile
    /\ UNCHANGED <<argv, role, exitCode, err, errBy, spawned, pidFile, fd, sigVars,
                   active_profile, name, iter, logged, logBase, buf, killed, wrote,
                   quits>>

\* the size test off by one
TooBig_OrEqual(size) == size >= MAXLOGSIZE

\* check_log_file_size(): the size test
TooBig(size) == size > MAXLOGSIZE

\* check_log_file_size(): os.path.getsize and, over the limit, f.truncate(0)
CheckLogFileSize(i) ==
    /\ At(i, "check_log_file_size")
    /\ IF TooBig(LogSize)
       THEN /\ logBase' = 0
            /\ logLines' = EmptyBag
            /\ pc' = [pc EXCEPT ![i] = "check_notice"]
       ELSE /\ pc' = [pc EXCEPT ![i] = "sleep"]
            /\ UNCHANGED logVars
    /\ UNCHANGED <<argv, role, exitCode, err, errBy, spawned, pidFile, fd, sigVars,
                   loopVars, cardProfile, buf, killed, wrote, quits>>

\* the size looked at once more after the notice
CheckNotice_Again(i) ==
    /\ At(i, "check_notice")
    /\ Write(CleaningLine)
    /\ pc' = [pc EXCEPT ![i] = "check_log_file_size"]
    /\ UNCHANGED <<argv, role, exitCode, err, errBy, spawned, pidFile, fd, sigVars,
                   loopVars, cardProfile, logBase, buf, killed, wrote, quits>>

\* check_log_file_size(): the "Cleaning up log file!" line after the truncation
CheckNotice(i) ==
    /\ At(i, "check_notice")
    /\ Write(CleaningLine)
    /\ pc' = [pc EXCEPT ![i] = "sleep"]
    /\ UNCHANGED <<argv, role, exitCode, err, errBy, spawned, pidFile, fd, sigVars,
                   loopVars, cardProfile, logBase, buf, killed, wrote, quits>>

\* main() returning after its sleep
Sleep_Returns(i) ==
    /\ At(i, "sleep")
    /\ iter < MaxIter
    /\ pc' = [pc EXCEPT ![i] = "exiting"]
    /\ UNCHANGED <<argv, role, exitCode, err, errBy, spawned, pidFile, fd, sigVars,
                   loopVars, cardProfile, logVars, buf, killed, wrote, quits>>

\* time.sleep(5), then the next iteration
Sleep(i) ==
    /\ At(i, "sleep")
    /\ iter < MaxIter
    /\ pc' = [pc EXCEPT ![i] = "get_audio_info"]
    /\ UNCHANGED <<argv, role, exitCode, err, errBy, spawned, pidFile, fd, sigVars,
                   loopVars, cardProfile, logVars, buf, killed, wrote, quits>>

\* ------------------------------------------------------- SIGTERM and exit
\* sigterm_handler(): the "Quitting daemon" line.  Python runs the handler
\* between two steps of the main flow, wherever that is: in the loop, inside a
\* handler that has not raised yet, or inside the atexit callback
SigtermHandler(i) ==
    /\ pending[i]
    /\ Alive(i)
    /\ pending' = [pending EXCEPT ![i] = FALSE]
    /\ Write(QuittingLine)
    /\ quits' = [quits EXCEPT ![i] =
                   Append(@, IF pc[i] \in {"exiting", "sigterm_handler_atexit"}
                             THEN "atexit" ELSE "main")]
    /\ pc' = [pc EXCEPT ![i] =
                IF pc[i] \in {"exiting", "sigterm_handler_atexit"}
                THEN "sigterm_handler_atexit" ELSE "sigterm_handler"]
    /\ UNCHANGED <<argv, role, exitCode, err, errBy, spawned, pidFile, fd, atexit,
                   sigterm, loopVars, cardProfile, logBase, buf, killed, wrote>>

\* the locals of main() are gone with the process
Forget(i) ==
    /\ active_profile' = [active_profile EXCEPT ![i] = "-"]
    /\ name' = [name EXCEPT ![i] = "-"]
    /\ applied' = [applied EXCEPT ![i] = <<>>]
    /\ logged' = [logged EXCEPT ![i] = 0]
    /\ UNCHANGED iter

\* sigterm_handler(): raise SystemExit(1).  Raised in the main flow it unwinds
\* main() and the interpreter finalizes; raised inside the atexit callback it
\* ends the callback before os.remove and the process exits
HandlerRaise(i) ==
    /\ pc[i] \in {"sigterm_handler", "sigterm_handler_atexit"}
    /\ ~pending[i]
    /\ IF pc[i] = "sigterm_handler"
       THEN /\ pc' = [pc EXCEPT ![i] = "exiting"]
            /\ UNCHANGED <<exitCode, loopVars>>
       ELSE /\ Terminate(i, 1)
            /\ Forget(i)
    /\ UNCHANGED <<argv, role, err, errBy, spawned, pidFile, fd, sigVars, cardProfile,
                   logVars, buf, killed, wrote, quits>>

\* the callback registered with atexit: os.remove(pidfile)
Cleanup(i) == IF atexit[i] /\ exists THEN Absent ELSE pidFile

\* interpreter exit: the atexit callback runs (a FileNotFoundError of os.remove
\* is printed and ignored), then the process is gone with status 1
AtExit(i) ==
    /\ At(i, "exiting")
    /\ pidFile' = Cleanup(i)
    /\ Terminate(i, 1)
    /\ Forget(i)
    /\ UNCHANGED <<argv, role, err, errBy, spawned, fd, sigVars, cardProfile, logVars,
                   buf, killed, wrote, quits>>

\* the steps of a started invocation
Run(i) ==
    \/ Fork1(i) \/ Fork2(i) \/ OpenPidfile(i) \/ WritePidfile(i) \/ SignalInstall(i)
    \/ StopRead(i) \/ StopKill(i)
    \/ MainStart(i) \/ GetAudioInfo(i) \/ SwitchWrite(i) \/ SwitchPopen(i)
    \/ CheckLogFileSize(i) \/ CheckNotice(i) \/ Sleep(i)
    \/ SigtermHandler(i) \/ HandlerRaise(i) \/ AtExit(i)

\* any MaxProcs invocations, in any interleaving
Next ==
    \E i \in Procs :
        \/ i <= MaxProcs /\ (Usage(i) \/ Start(i) \/ Stop(i))
        \/ Run(i)

Spec == Init /\ [][Next]_vars

\* the starts one after the other: no start is invoked while an earlier one is
\* between its existence check and its pid file
NoStartInFlight ==
    \A j \in Procs : pc[j] \notin {"fork1", "fork2", "open_pidfile", "write_pidfile"}

NextSerial ==
    \E i \in Procs :
        \/ i <= MaxProcs /\ (Usage(i) \/ (NoStartInFlight /\ Start(i)) \/ Stop(i))
        \/ Run(i)

SpecSerial == Init /\ [][NextSerial]_vars

\* the same with one more invocation: a daemon and two commands run against it
NextSignals ==
    \E i \in Procs :
        \/ Usage(i) \/ (NoStartInFlight /\ Start(i)) \/ Stop(i)
        \/ Run(i)

SpecSignals == Init /\ [][NextSignals]_vars

\* ============================================================ properties
NoExit == [foreground |-> -1, intermediate |-> -1, daemon |-> -1]

\* the step is the shell starting invocation i with the given command
Invoked(i, cmd) == pc[i] = "unused" /\ argv'[i] = cmd

\* C1: a start invoked while the pid file exists exits 1 in the foreground process,
\* forks nothing and leaves the pid file as it was (existence, contents, file).
C1_SingleInstance ==
    [][\A i \in Procs :
         (Invoked(i, "start") /\ pidFile.exists)
         => /\ pc'[i] = "exited"
            /\ exitCode'[i] = [NoExit EXCEPT !.foreground = 1]
            /\ role'[i] = "foreground"
            /\ pidFile' = pidFile]_vars

\* C1 witness: a start was refused while the pid file written by another start
\* was there
C1_Witness ==
    \E i, j \in Procs :
        /\ i # j /\ wrote[j] /\ pidFile.exists
        /\ argv[i] = "start" /\ pc[i] = "exited"
        /\ exitCode[i] = [NoExit EXCEPT !.foreground = 1] /\ err[i] = "-"

\* the pid file the daemon of invocation i created is still there
Leaked(i) == pidFile.exists /\ pidFile.ino = Pid(i, "daemon")

\* C2: once an instance that created the pid file has terminated, whichever way,
\* that pid file is absent.
C2_CleanupComplete ==
    \A i \in Procs : (wrote[i] /\ pc[i] = "exited") => ~Leaked(i)

\* the daemon of invocation i holds the pid file: it has opened it and has not
\* terminated
Running(i) == role[i] = "daemon" /\ Alive(i) /\ pc[i] # "open_pidfile"

\* C3: in every reachable state the pid file exists exactly when a daemon
\* instance is running.
C3_PidFileIffRunning == pidFile.exists <=> \E i \in Procs : Running(i)

\* the daemon of invocation i is in an iteration of the loop, past get_audio_info()
InIteration(i) == name[i] # "-"

\* C4: in an iteration whose desired profile is the active profile observed, no
\* pacmd set-card-profile is run and no "Setting card profile" line is written.
C4_Debounce ==
    \A i \in Procs :
        (InIteration(i) /\ name[i] = active_profile[i])
        => /\ applied[i] = <<>>
           /\ logged[i] = 0
           /\ pc[i] \notin {"switch_write", "switch_popen"}

\* C4 witness: an iteration with nothing to do has reached its sleep
C4_Witness ==
    \E i \in Procs :
        pc[i] = "sleep" /\ name[i] = active_profile[i] /\ applied[i] = <<>>

\* C5: in an iteration whose desired profile differs from the active profile
\* observed, switch_audio_to() writes one "Setting card profile" line naming the
\* desired profile and then runs pacmd once, with that profile; the iteration goes
\* on to the log check with exactly that one line and that one call.
C5_ApplyOnce ==
    \A i \in Procs :
        (InIteration(i) /\ name[i] # active_profile[i])
        => /\ pc[i] = "switch_write" => applied[i] = <<>> /\ logged[i] = 0
           /\ pc[i] = "switch_popen" =>
                 /\ applied[i] = <<>> /\ logged[i] = 1
                 /\ CopiesIn(SettingLine(name[i]), logLines) >= 1
           /\ pc[i] \in {"check_log_file_size", "check_notice", "sleep"} =>
                 applied[i] = <<name[i]>> /\ logged[i] = 1
           /\ applied[i] \in {<<>>, <<name[i]>>}
           /\ logged[i] <= 1
           /\ applied[i] # <<>> => logged[i] = 1

\* C5 witness: an iteration that switched the profile has reached its sleep
C5_Witness ==
    \E i \in Procs :
        /\ pc[i] = "sleep" /\ name[i] # active_profile[i]
        /\ applied[i] = <<name[i]>> /\ logged[i] = 1 /\ cardProfile = name[i]

\* the step is check_log_file_size() of invocation i reading the size
Checks(i) == pc[i] = "check_log_file_size" /\ pc'[i] \in {"check_notice", "sleep"}

\* C6: a check that finds LOGFILE over MAXLOGSIZE empties it, nothing is appended
\* before the notice, and the notice is one "Cleaning up log file!" line; a check
\* that finds the size at or under MAXLOGSIZE changes nothing and writes nothing.
C6_LogBound ==
    [][\A i \in Procs :
         /\ (Checks(i) /\ LogSize > MAXLOGSIZE)
               => pc'[i] = "check_notice" /\ LogSize' = 0 /\ logLines' = EmptyBag
         /\ (Checks(i) /\ LogSize <= MAXLOGSIZE)
               => pc'[i] = "sleep" /\ logBase' = logBase /\ logLines' = logLines
         /\ pc[i] = "check_notice" => LogSize = 0
         /\ (pc[i] = "check_notice" /\ pc'[i] = "sleep")
               => logBase' = 0 /\ logLines' = SetToBag({CleaningLine})]_vars

\* C6 witness: a check found the file over the limit, and all it holds now is the
\* notice of that check
C6_Witness ==
    \E i \in Procs :
        pc[i] = "sleep" /\ logBase = 0 /\ logLines = SetToBag({CleaningLine})

\* C7: stop invoked while the pid file is absent prints "Not running", exits with
\* status 1, sends no signal and leaves every other process and the pid file alone.
C7_StopNotRunning ==
    [][\A i \in Procs :
         (Invoked(i, "stop") /\ ~pidFile.exists)
         => /\ pc'[i] = "exited"
            /\ exitCode'[i] = [NoExit EXCEPT !.foreground = 1]
            /\ err'[i] = "Not running"
            /\ killed' = killed
            /\ pending' = pending
            /\ pidFile' = pidFile
            /\ \A j \in Procs \ {i} : pc'[j] = pc[j]]_vars

\* C7 witness: a stop has ended that way
C7_Witness ==
    \E i \in Procs :
        /\ argv[i] = "stop" /\ pc[i] = "exited" /\ err[i] = "Not running"
        /\ exitCode[i] = [NoExit EXCEPT !.foreground = 1]
        /\ killed[i] = NoPid /\ ~pidFile.exists

\* C8: a stop that found the pid file present ends with status 0, having sent
\* SIGTERM to the pid a daemon recorded in it.
C8_StopDelivers ==
    \A i \in Procs :
        (argv[i] = "stop" /\ pc[i] = "exited" /\ err[i] # "Not running")
        => /\ exitCode[i].foreground = 0
           /\ \E j \in Procs : wrote[j] /\ killed[i] = Pid(j, "daemon")

ForkFailures == {"fork #1 failed.", "fork #2 failed."}

\* C9 as stated: a failure of either fork is reported by the foreground process
\* of start, which exits with status 1.
C9_ForegroundReportsFailure ==
    \A i \in Procs :
        (argv[i] = "start" /\ err[i] \in ForkFailures)
        => errBy[i] = "foreground" /\ exitCode[i].foreground = 1

\* C9 amended: the foreground process of start exits with status 0 exactly when
\* the first fork succeeded, and with status 1 when the pid file exists or the
\* first fork fails, which it reports itself; a failure of the second fork is
\* reported by the intermediate process, which exits with status 1 after the
\* foreground process has exited with status 0, and no daemon comes of it.
C9_ForegroundStatus ==
    \A i \in Procs :
        argv[i] = "start"
        => /\ exitCode[i].foreground = 0 <=> role[i] # "foreground"
           /\ exitCode[i].foreground = 1 <=> (role[i] = "foreground" /\ pc[i] = "exited")
           /\ err[i] \in {"-"} \cup ForkFailures
           /\ err[i] = "fork #1 failed."
                 => /\ errBy[i] = "foreground"
                    /\ exitCode[i] = [NoExit EXCEPT !.foreground = 1]
           /\ err[i] = "fork #2 failed."
                 => /\ errBy[i] = "intermediate" /\ role[i] = "intermediate"
                    /\ pc[i] = "exited"
                    /\ exitCode[i] = [NoExit EXCEPT !.foreground = 0,
                                                    !.intermediate = 1]

\* C9 witness: the second fork failed after the foreground process had left with
\* status 0
C9_Witness ==
    \E i \in Procs :
        /\ argv[i] = "start" /\ err[i] = "fork #2 failed."
        /\ exitCode[i].foreground = 0 /\ exitCode[i].intermediate = 1

\* C10: a daemon that SIGTERM reached in main(), and that has terminated since,
\* has removed its pid file.
C10_SigtermRemovesPidfile ==
    \A i \in Procs :
        (quits[i] # <<>> /\ Head(quits[i]) = "main" /\ pc[i] = "exited")
        => ~Leaked(i)

\* C11: a daemon writes at most one "Quitting daemon" line, however many SIGTERMs
\* reach it: sigterm_handler is not run a second time.
C11_HandlerRunsOnce == \A i \in Procs : Len(quits[i]) <= 1

\* the step writes a traceback to LOGFILE
Traceback == CopiesIn(TracebackLine, logLines') = CopiesIn(TracebackLine, logLines) + 1

\* the places of a daemon that is going down
Finalizing == {"exiting", "sigterm_handler_atexit"}

\* C12: when get_audio_info() (or the use of its result in main) raises, pacmd
\* set-card-profile is not run and nothing of the apply step is logged in that
\* pass, the daemon goes from the loop to interpreter exit, never back, and it
\* ends with exit status 1.
C12_ObservationFailureFatal ==
    [][\A i \in Procs :
         /\ (pc[i] = "get_audio_info" /\ Traceback)
               => /\ pc'[i] = "exiting"
                  /\ applied'[i] = applied[i] /\ logged'[i] = logged[i]
                  /\ cardProfile' = cardProfile
                  /\ name'[i] = name[i] /\ active_profile'[i] = active_profile[i]
         /\ pc[i] \in Finalizing
               => /\ pc'[i] \in Finalizing \cup {"exited"}
                  /\ cardProfile' = cardProfile
                  /\ Len(applied'[i]) <= Len(applied[i])
                  /\ logged'[i] <= logged[i]
         /\ (pc[i] \in Finalizing /\ pc'[i] = "exited")
               => exitCode'[i] = [foreground |-> 0, intermediate |-> 0, daemon |-> 1]]_vars

\* C12 witness: the first get_audio_info() of a daemon raised and the daemon is
\* gone with status 1
C12_Witness ==
    \E i \in Procs :
        /\ pc[i] = "exited" /\ exitCode[i].daemon = 1 /\ quits[i] = <<>>
        /\ iter = 0 /\ BagIn(TracebackLine, logLines)

\* the step is the Popen of switch_audio_to() in the daemon of invocation i
Applies(i) == Len(applied'[i]) > Len(applied[i])

\* C13 as stated: whenever switch_audio_to() does not bring about the profile it
\* was called for, the daemon goes on with the rest of the iteration.
C13_ApplyFailureRecoverable ==
    [][\A i \in Procs :
         (Applies(i) /\ cardProfile' # name[i]) => pc'[i] = "check_log_file_size"]_vars

\* C13 amended: the Popen of switch_audio_to() either starts pacmd, and then the
\* daemon goes on to the log check without logging anything, whether or not the
\* profile was set, or it raises, and then the daemon leaves the loop with a
\* traceback and the profile untouched; a pass of the loop that observes a
\* profile other than the desired one calls for the switch, whatever earlier
\* passes did.
C13_ApplyOutcome ==
    [][\A i \in Procs :
         /\ Applies(i)
               => \/ /\ pc'[i] = "check_log_file_size"
                     /\ logLines' = logLines
                     /\ cardProfile' \in {cardProfile, name[i]}
                  \/ /\ pc'[i] = "exiting"
                     /\ Traceback
                     /\ cardProfile' = cardProfile
         /\ (pc[i] = "get_audio_info" /\ pc'[i] \in {"switch_write", "check_log_file_size"})
               => /\ active_profile'[i] = cardProfile
                  /\ pc'[i] = "switch_write" <=> name'[i] # cardProfile]_vars

\* C13 witness: pacmd was started and did not set the profile, and the daemon is
\* on its way to the log check
C13_Witness ==
    \E i \in Procs :
        /\ pc[i] = "check_log_file_size" /\ applied[i] = <<name[i]>>
        /\ cardProfile # name[i] /\ ~BagIn(TracebackLine, logLines)

\* C14: the pid file a daemon has written holds, as the decimal text int() reads
\* back, the pid of that daemon -- the child of the second fork -- and not the
\* pid of the foreground or of the intermediate process of its start; and every
\* pid a stop has signalled is the pid of a daemon.
C14_PidOfDaemon ==
    /\ \A i \in Procs :
          (wrote[i] /\ pidFile.exists /\ pidFile.ino = Pid(i, "daemon"))
          => /\ int(pidFile.text) = [ok |-> TRUE, val |-> Pid(i, "daemon")]
             /\ int(pidFile.text).val \notin {Pid(i, "foreground"), Pid(i, "intermediate")}
             /\ exitCode[i].foreground = 0 /\ exitCode[i].intermediate = 0
    /\ \A j \in Procs :
          killed[j] # NoPid => \E i \in Procs : wrote[i] /\ killed[j] = Pid(i, "daemon")

\* C14 witness: a daemon is in its loop, its pid in the pid file, and a stop has
\* read that pid and signalled it
C14_Witness ==
    \E i, j \in Procs :
        /\ pc[i] = "sleep" /\ pidFile.text = PidText(Pid(i, "daemon"))
        /\ killed[j] = Pid(i, "daemon") /\ pending[i]

\* the daemon of invocation i is in the loop of main()
InLoop(i) ==
    pc[i] \in {"get_audio_info", "switch_write", "switch_popen", "check_log_file_size",
               "check_notice", "sleep"}

\* C15: however starts interleave, at most one daemon is in the loop of main() at
\* a time.
C15_OneInLoop == Cardinality({i \in Procs : InLoop(i)}) <= 1

\* the invocations that are neither start nor stop: a wrong number of arguments,
\* and one argument that is not a command
BadArgs == {"argc", "bogus"}

\* the step of invocation i touches nothing but the invocation itself
Harmless(i) ==
    /\ pidFile' = pidFile
    /\ killed' = killed
    /\ pending' = pending
    /\ role'[i] = "foreground"
    /\ \A j \in Procs \ {i} : pc'[j] = pc[j]

\* C16 as stated: an invocation that is neither start nor stop prints the usage
\* message, exits with status 1 and touches neither the pid file nor a process.
C16_UsagePrinted ==
    [][\A i \in Procs : \A a \in BadArgs :
         Invoked(i, a)
         => /\ err'[i] = "Usage"
            /\ pc'[i] = "exited"
            /\ exitCode'[i] = [NoExit EXCEPT !.foreground = 1]
            /\ Harmless(i)]_vars

\* C16 amended: with a wrong number of arguments the usage message is printed,
\* with one argument other than start and stop the message is "Unknown command";
\* either way the status is 1, by the foreground process, and neither the pid
\* file nor any process is touched.
C16_BadInvocation ==
    [][\A i \in Procs : \A a \in BadArgs :
         Invoked(i, a)
         => /\ err'[i] = (IF a = "argc" THEN "Usage" ELSE "Unknown command")
            /\ errBy'[i] = "foreground"
            /\ pc'[i] = "exited"
            /\ exitCode'[i] = [NoExit EXCEPT !.foreground = 1]
            /\ Harmless(i)]_vars

\* C16 witness: an unknown command was turned down while a daemon was running,
\* and the daemon and its pid file are as they were
C16_Witness ==
    \E i, j \in Procs :
        /\ argv[i] = "bogus" /\ pc[i] = "exited" /\ err[i] = "Unknown command"
        /\ exitCode[i] = [NoExit EXCEPT !.foreground = 1]
        /\ InLoop(j) /\ ~pending[j] /\ pidFile.text = PidText(Pid(j, "daemon"))

\* the places of a start, in the order of the code, and the process at each
StartSteps == <<"fork1", "fork2", "open_pidfile", "write_pidfile", "signal", "main">>

StepNo(label) == CHOOSE n \in 1 .. Len(StartSteps) : StartSteps[n] = label

StepRole(label) ==
    IF label = "fork1" THEN "foreground"
    ELSE IF label = "fork2" THEN "intermediate" ELSE "daemon"

Successors(label) ==
    IF label = "get_audio_info" THEN {"switch_write", "check_log_file_size", "exiting"}
    ELSE IF label = "switch_write" THEN {"switch_popen"}
    ELSE IF label = "switch_popen" THEN {"check_log_file_size", "exiting"}
    ELSE IF label = "check_log_file_size" THEN {"check_notice", "sleep"}
    ELSE IF label = "check_notice" THEN {"sleep"}
    ELSE {"get_audio_info"}

\* C18: an iteration of main() runs get_audio_info(), the choice of the profile,
\* switch_audio_to() (which acts only when the profile differs),
\* check_log_file_size() and the sleep in that order; an iteration begins with
\* get_audio_info() only, the log check comes after the switch and is followed
\* by the sleep, and the only way back to the log check is a new iteration.
C18_IterationOrder ==
    [][\A i \in Procs :
         (InLoop(i) /\ pc'[i] # pc[i])
         => /\ role[i] = "daemon"
            /\ pc'[i] \in Successors(pc[i]) \cup {"sigterm_handler"}
            /\ iter' = (IF pc[i] = "get_audio_info" /\ InLoop(i)' THEN iter + 1 ELSE iter)
            /\ (pc[i] = "get_audio_info" /\ InLoop(i)')
                  => /\ applied'[i] = <<>> /\ logged'[i] = 0
                     /\ pc'[i] = "switch_write" <=> name'[i] # active_profile'[i]
            /\ pc'[i] = "check_log_file_size"
                  => applied'[i] = (IF name'[i] = active_profile'[i]
                                    THEN <<>> ELSE <<name'[i]>>)
            /\ pc[i] = "sleep" => pc'[i] # "check_log_file_size"]_vars

\* C18 witness: a second iteration has come to its sleep after a first one that
\* did
C18_Witness ==
    \E i \in Procs : pc[i] = "sleep" /\ iter = 2 /\ applied[i] = <<name[i]>>

\* the daemon of invocation i leaves the loop of main() in this step
LeavesLoop(i) == InLoop(i) /\ ~InLoop(i)'

\* C19 as stated: the loop of main() is left only through sigterm_handler or
\* through an exception of the get_audio_info() step.
C19_LoopExits ==
    [][\A i \in Procs :
         LeavesLoop(i)
         => \/ pc'[i] = "sigterm_handler"
            \/ pc[i] = "get_audio_info" /\ pc'[i] = "exiting"]_vars

\* C19 amended: the loop of main() is left only through sigterm_handler or
\* through an exception nobody catches, which get_audio_info() with the choice of
\* the profile can raise and the Popen of switch_audio_to() can raise too; the
\* write of the "Setting" line, the log check with its notice and the sleep
\* never end the loop, and a daemon in the loop is not killed outright.
C19_LoopExitsOrFault ==
    [][\A i \in Procs :
         /\ LeavesLoop(i)
               => \/ pc'[i] = "sigterm_handler" /\ Len(quits'[i]) = Len(quits[i]) + 1
                  \/ /\ pc[i] \in {"get_audio_info", "switch_popen"}
                     /\ pc'[i] = "exiting"
                     /\ Traceback
         /\ (InLoop(i) /\ pc[i] \in {"switch_write", "check_log_file_size",
                                      "check_notice", "sleep"})
               => pc'[i] # "exiting"
         /\ InLoop(i) => pc'[i] # "exited"]_vars

\* C19 witness: the Popen of switch_audio_to() raised and the daemon is on its way
\* out, without any SIGTERM
C19_Witness ==
    \E i \in Procs :
        /\ pc[i] = "exiting" /\ applied[i] = <<name[i]>> /\ quits[i] = <<>>
        /\ BagIn(TracebackLine, logLines)

\* the step is one of the stop of invocation i: its start, its read or its kill
StopStep(i) == argv'[i] = "stop" /\ pc'[i] # pc[i]

\* C20: no step of a stop changes the pid file, neither its existence nor its
\* text; the pid file goes away only in the atexit callback of a daemon, and its
\* text changes only in the open and the write of a start.
C20_StopLeavesPidfile ==
    [][/\ \A i \in Procs : StopStep(i) => pidFile' = pidFile
       /\ (pidFile.exists /\ ~pidFile'.exists)
             => \E i \in Procs :
                   /\ role[i] = "daemon" /\ atexit[i]
                   /\ pc[i] = "exiting" /\ pc'[i] = "exited"
       /\ pidFile' # pidFile
             => \E i \in Procs :
                   /\ argv[i] = "start" /\ role[i] = "daemon"
                   /\ pc[i] \in {"open_pidfile", "write_pidfile", "exiting"}
                   /\ pc'[i] # pc[i]]_vars

\* C20 witness: a stop has signalled the daemon and is done, and the pid file is
\* still there with the daemon's pid, the daemon not having run its handler yet
C20_Witness ==
    \E i, j \in Procs :
        /\ argv[i] = "stop" /\ pc[i] = "exited" /\ exitCode[i].foreground = 0
        /\ killed[i] = Pid(j, "daemon") /\ pending[j] /\ InLoop(j)
        /\ pidFile.exists /\ pidFile.text = PidText(Pid(j, "daemon"))

====
